---- MODULE Spec2Model ----
(***************************************************************************)
(* kindred-costs: the ledger store (tables, constraints and row-level      *)
(* policies of the migration), the join-apartment and create-apartment     *)
(* dialogs, the dashboard's fetchApartments and the balance computation.   *)
(*                                                                         *)
(* Reading of the policies: a policy's USING / WITH CHECK expression is    *)
(* evaluated for the requesting user (auth.uid()); the sub-select a policy *)
(* makes on apartment_members returns the user's own membership rows, and  *)
(* the sub-select it makes on expenses returns the expenses the user sees. *)
(* This is the membership test the policies are written to be; PostgreSQL  *)
(* itself refuses a policy on apartment_members that selects from          *)
(* apartment_members ("infinite recursion detected in policy"), which is   *)
(* the engine's doing and is not modelled.                                 *)
(* Each await of a handler is one store request, hence one action; other   *)
(* sessions' requests interleave between them.                             *)
(***************************************************************************)
EXTENDS Integers, Sequences, FiniteSets, Bags, TLC

\* ------------------------------------------------------------- bounds
MaxApartments == 2
MaxMemberRows == 3
MaxExpenses == 1
MaxSplitRows == 2
MaxSettlementRows == 1

Users == {"X", "Y"}
\* two browser sessions, each signed in as any of the users
Sessions == {1, 2}
NoUser == "none"
NULL == 0

\* ------------------------------------------------------------- text
Space == " "

\* String.prototype.toUpperCase, on one character
UpperChar(c) ==
  CASE c = "a" -> "A"
    [] c = "b" -> "B"
    [] OTHER -> c

\* String.prototype.toUpperCase / SQL UPPER
ToUpperCase(str) == [i \in 1..Len(str) |-> UpperChar(str[i])]

RECURSIVE TrimStart(_)
TrimStart(str) ==
  IF str # <<>> /\ Head(str) = Space THEN TrimStart(Tail(str)) ELSE str

RECURSIVE TrimEnd(_)
TrimEnd(str) ==
  IF str # <<>> /\ str[Len(str)] = Space
  THEN TrimEnd(SubSeq(str, 1, Len(str) - 1))
  ELSE str

\* String.prototype.trim
Trim(str) == TrimEnd(TrimStart(str))

\* CHR(n) of the code generator
CHR(n) ==
  CASE n = 65 -> "A"
    [] n = 66 -> "B"
    [] OTHER -> "?"

\* (RANDOM() * 25)::INT and (RANDOM() * 9)::INT, cut to the first values
LetterDraws == {0, 1}
DigitDraws == {0}

DigitText(d) ==
  CASE d = 0 -> "0"
    [] d = 1 -> "1"
    [] OTHER -> "?"

\* the candidates one iteration of generate_apartment_code can draw
CandidateCodes ==
  { ToUpperCase(<<CHR(65 + l1), CHR(65 + l2), DigitText(d1), DigitText(d2),
                  CHR(65 + l3), DigitText(d3)>>) :
      l1 \in LetterDraws, l2 \in LetterDraws, d1 \in DigitDraws,
      d2 \in DigitDraws, l3 \in LetterDraws, d3 \in DigitDraws }

\* what a user types into the join dialog
RawCodes ==
  { <<Space, "a", "a", "0", "0", "A", "0", Space>>,
    <<"B", "A", "0", "0", "A", "0">>,
    <<Space>> }

\* what a user types into the create dialog
RawNames == { <<Space, "F", Space>>, <<Space>> }

\* money, in minor units (DECIMAL(10,2)): 50.00 and 100.00
Amounts == {5000, 10000}
ShareAmounts == {5000}

\* codes and names a direct insert carries
DirectCodes == { <<"A", "A", "0", "0", "A", "0">>, <<"B", "A", "0", "0", "A", "0">> }
DirectNames == { <<"F">> }

\* the names an update of an apartment row carries
UpdateNames == { <<"F">>, <<"G">> }

VARIABLES
  apartments,         \* rows of public.apartments
  apartment_members,  \* rows of public.apartment_members (a bag: the id column is left out)
  nextApartmentId,    \* gen_random_uuid(): the next fresh apartments.id
  flow,               \* per browser session: the dialog's handleSubmit in progress
  expenses,           \* rows of public.expenses
  expense_splits,     \* rows of public.expense_splits (a bag: the id column is left out)
  settlements,        \* rows of public.settlements (a bag: the id column is left out)
  nextExpenseId,      \* gen_random_uuid(): the next fresh expenses.id
  requester,          \* auth.uid() of the latest request on the ledger tables (history)
  dashboard,          \* the Dashboard component: fetchApartments in progress and its state
  balance             \* the balances the balance engine returned last

membership == <<apartments, apartment_members, nextApartmentId>>
ledger == <<expenses, expense_splits, settlements, nextExpenseId, requester>>
views == <<dashboard, balance>>
vars == <<apartments, apartment_members, nextApartmentId, flow, expenses, expense_splits,
          settlements, nextExpenseId, requester, dashboard, balance>>

\* ------------------------------------------------------------- store
MemberRow(a, u) == [apartment_id |-> a, user_id |-> u]

\* SELECT apartment_id FROM apartment_members WHERE user_id = auth.uid()
MemberApartments(uid) ==
  { m.apartment_id : m \in { r \in BagToSet(apartment_members) : r.user_id = uid } }

\* "Users can view apartments they are members of"
ApartmentsSelectPolicy(uid, row) == row.id \in MemberApartments(uid)

\* "Users can create apartments"
ApartmentsInsertPolicy(uid, row) == uid = row.created_by

\* "Apartment creators can update their apartments"
ApartmentsUpdatePolicy(uid, row) == uid = row.created_by

\* "Users can view members of their apartments"
MembersSelectPolicy(uid, row) == row.apartment_id \in MemberApartments(uid)

\* "Users can join apartments"
MembersInsertPolicy(uid, row) == uid = row.user_id

\* "Users can leave apartments"
MembersDeletePolicy(uid, row) == uid = row.user_id

\* the apartments table without its UNIQUE on code
ApartmentsCodeUnique_Dropped(row) == TRUE

\* code TEXT NOT NULL UNIQUE
ApartmentsCodeUnique(row) == \A a \in apartments : a.code # row.code

\* the apartment_members table without its UNIQUE(apartment_id, user_id)
MembersUnique_Dropped(row) == TRUE

\* UNIQUE(apartment_id, user_id)
MembersUnique(row) == CopiesIn(row, apartment_members) = 0

\* apartment_id UUID REFERENCES public.apartments(id)
MembersForeignKey(row) == \E a \in apartments : a.id = row.apartment_id

\* .single(): the one row, or an error when the result has no row or several
Single(rows) ==
  IF Cardinality(rows) = 1
  THEN [data |-> CHOOSE r \in rows : TRUE, error |-> FALSE]
  ELSE [data |-> NULL, error |-> TRUE]

\* a dialog with no submit in progress; matched, wasMember, lastFree and fresh
\* are history fields for the properties, not state of the program
IdleFlow ==
  [kind |-> "idle", pc |-> "idle", user |-> NoUser, input |-> <<>>,
   apartment |-> NULL, codeData |-> <<>>, loading |-> FALSE,
   outcome |-> "none", notified |-> FALSE,
   matched |-> NULL, wasMember |-> FALSE, lastFree |-> FALSE, fresh |-> FALSE]

\* the Dashboard before its first fetch: useState([]) and useState(true)
IdleDashboard ==
  [pc |-> "idle", user |-> NoUser, data |-> <<>>, apartmentData |-> <<>>,
   memberCount |-> 0, apartments |-> <<>>, loading |-> TRUE]

NoBalance == [u \in {} |-> 0]

EmptyLedger ==
  /\ expenses = {}
  /\ expense_splits = EmptyBag
  /\ settlements = EmptyBag
  /\ nextExpenseId = 1
  /\ requester = NoUser
  /\ dashboard = IdleDashboard
  /\ balance = NoBalance

Init ==
  /\ apartments = {}
  /\ apartment_members = EmptyBag
  /\ nextApartmentId = 1
  /\ flow = [s \in Sessions |-> IdleFlow]
  /\ EmptyLedger

\* INSERT INTO apartments, without RETURNING, sent straight to the store
InsertApartment(u, name, code, creator) ==
  LET row == [id |-> nextApartmentId, name |-> name, code |-> code, created_by |-> creator] IN
  /\ nextApartmentId <= MaxApartments
  /\ ApartmentsInsertPolicy(u, row)
  /\ ApartmentsCodeUnique(row)
  /\ apartments' = apartments \cup {row}
  /\ nextApartmentId' = nextApartmentId + 1
  /\ UNCHANGED <<apartment_members, flow, ledger, views>>

\* INSERT INTO apartment_members, sent straight to the store
InsertMember(u, a, member) ==
  LET row == MemberRow(a, member) IN
  /\ BagCardinality(apartment_members) < MaxMemberRows
  /\ MembersInsertPolicy(u, row)
  /\ MembersForeignKey(row)
  /\ MembersUnique(row)
  /\ apartment_members' = apartment_members (+) SetToBag({row})
  /\ UNCHANGED <<apartments, nextApartmentId, flow, ledger, views>>

\* DELETE FROM apartment_members, sent straight to the store
DeleteMember(u, a, member) ==
  LET row == MemberRow(a, member) IN
  /\ BagIn(row, apartment_members)
  /\ MembersDeletePolicy(u, row)
  /\ apartment_members' = apartment_members (-) SetToBag({row})
  /\ UNCHANGED <<apartments, nextApartmentId, flow, ledger, views>>

\* UPDATE apartments SET name, code, created_by, sent straight to the store: the
\* USING expression is checked on the row as it is and, there being no WITH
\* CHECK, as it becomes; the policy names no column, and the trigger
\* update_apartments_updated_at only sets updated_at (timestamps are left out)
UpdateApartment(u, a, name, code, creator) ==
  LET row == [a EXCEPT !.name = name, !.code = code, !.created_by = creator] IN
  /\ a \in apartments
  /\ row # a
  /\ ApartmentsUpdatePolicy(u, a)
  /\ ApartmentsUpdatePolicy(u, row)
  /\ row.code # a.code => ApartmentsCodeUnique(row)
  /\ apartments' = (apartments \ {a}) \cup {row}
  /\ UNCHANGED <<apartment_members, nextApartmentId, flow, ledger, views>>

\* ------------------------------------------------------------- ledger tables
\* "Users can view expenses in their apartments"
ExpensesSelectPolicy(uid, row) == row.apartment_id \in MemberApartments(uid)

\* "Apartment members can create expenses"
ExpensesInsertPolicy(uid, row) ==
  uid = row.created_by /\ row.apartment_id \in MemberApartments(uid)

\* "Expense creators can update their expenses"
ExpensesUpdatePolicy(uid, row) == uid = row.created_by

\* the expenses table with a DELETE policy that admits every user
ExpensesDeletePolicy_AnyUser(uid, row) == TRUE

\* "Expense creators can delete their expenses"
ExpensesDeletePolicy(uid, row) == uid = row.created_by

\* "Users can manage splits for their created expenses"
SplitsManagePolicy(uid, row) ==
  row.expense_id \in
    { e.id : e \in { x \in expenses : ExpensesSelectPolicy(uid, x) /\ x.created_by = uid } }

\* "Users can create settlements in their apartments"
SettlementsInsertPolicy(uid, row) ==
  uid = row.from_user /\ row.apartment_id \in MemberApartments(uid)

\* apartment_id UUID REFERENCES public.apartments(id), on expenses and settlements
ApartmentForeignKey(row) == \E a \in apartments : a.id = row.apartment_id

\* expense_id UUID REFERENCES public.expenses(id)
SplitsForeignKey(row) == \E e \in expenses : e.id = row.expense_id

\* UNIQUE(expense_id, user_id)
SplitsUnique(row) ==
  \A r \in BagToSet(expense_splits) :
    ~(r.expense_id = row.expense_id /\ r.user_id = row.user_id)

\* CHECK (amount > 0), on expenses and settlements
AmountPositive(row) == row.amount > 0

\* CHECK (amount >= 0), on expense_splits
AmountNotNegative(row) == row.amount >= 0

\* INSERT INTO expenses
InsertExpense(u, a, amount, payer, creator) ==
  LET row == [id |-> nextExpenseId, apartment_id |-> a, amount |-> amount,
              paid_by |-> payer, created_by |-> creator] IN
  /\ nextExpenseId <= MaxExpenses
  /\ ExpensesInsertPolicy(u, row)
  /\ ApartmentForeignKey(row)
  /\ AmountPositive(row)
  /\ expenses' = expenses \cup {row}
  /\ nextExpenseId' = nextExpenseId + 1
  /\ requester' = u
  /\ UNCHANGED <<membership, flow, expense_splits, settlements, views>>

\* UPDATE expenses SET amount, paid_by, created_by: the USING expression is
\* checked on the row as it is and, there being no WITH CHECK, as it becomes
UpdateExpense(u, e, amount, payer, creator) ==
  LET row == [e EXCEPT !.amount = amount, !.paid_by = payer, !.created_by = creator] IN
  /\ e \in expenses
  /\ row # e
  /\ ExpensesUpdatePolicy(u, e)
  /\ ExpensesUpdatePolicy(u, row)
  /\ AmountPositive(row)
  /\ expenses' = (expenses \ {e}) \cup {row}
  /\ requester' = u
  /\ UNCHANGED <<membership, flow, expense_splits, settlements, nextExpenseId, views>>

\* DELETE FROM expenses; expense_splits.expense_id is ON DELETE CASCADE
DeleteExpense(u, e) ==
  /\ e \in expenses
  /\ ExpensesDeletePolicy(u, e)
  /\ expenses' = expenses \ {e}
  /\ expense_splits' =
       [r \in { x \in BagToSet(expense_splits) : x.expense_id # e.id } |-> expense_splits[r]]
  /\ requester' = u
  /\ UNCHANGED <<membership, flow, settlements, nextExpenseId, views>>

\* INSERT INTO expense_splits
InsertSplit(u, e, member, amount) ==
  LET row == [expense_id |-> e, user_id |-> member, amount |-> amount] IN
  /\ BagCardinality(expense_splits) < MaxSplitRows
  /\ SplitsManagePolicy(u, row)
  /\ SplitsForeignKey(row)
  /\ SplitsUnique(row)
  /\ AmountNotNegative(row)
  /\ expense_splits' = expense_splits (+) SetToBag({row})
  /\ requester' = u
  /\ UNCHANGED <<membership, flow, expenses, settlements, nextExpenseId, views>>

\* INSERT INTO settlements
InsertSettlement(u, a, from, to, amount) ==
  LET row == [apartment_id |-> a, from_user |-> from, to_user |-> to, amount |-> amount] IN
  /\ BagCardinality(settlements) < MaxSettlementRows
  /\ SettlementsInsertPolicy(u, row)
  /\ ApartmentForeignKey(row)
  /\ AmountPositive(row)
  /\ settlements' = settlements (+) SetToBag({row})
  /\ requester' = u
  /\ UNCHANGED <<membership, flow, expenses, expense_splits, nextExpenseId, views>>

\* ------------------------------------------------------------- JoinApartmentDialog
\* the catch and finally blocks of a handleSubmit: toast the error, setLoading(false)
Failed(f, message) ==
  [f EXCEPT !.pc = "done", !.outcome = message, !.loading = FALSE,
            !.apartment = NULL, !.codeData = <<>>, !.lastFree = FALSE, !.fresh = FALSE]

\* handleSubmit up to its first await; the input's onChange upper-cases what is typed
JoinSubmit(s, u, raw) ==
  LET apartmentCode == ToUpperCase(raw) IN
  /\ flow[s].kind = "idle"
  /\ Trim(apartmentCode) # <<>>
  /\ flow' = [flow EXCEPT ![s] =
       [IdleFlow EXCEPT !.kind = "join", !.pc = "lookup", !.user = u,
                        !.input = apartmentCode, !.loading = TRUE]]
  /\ UNCHANGED <<membership, ledger, views>>

\* the lookup rethrowing the store's error instead of its own message
JoinLookup_Rethrows(s) ==
  LET f == flow[s]
      key == ToUpperCase(Trim(f.input))
      rows == { a \in apartments : ApartmentsSelectPolicy(f.user, a) /\ a.code = key }
      res == Single(rows)
  IN
  /\ f.kind = "join" /\ f.pc = "lookup"
  /\ flow' = [flow EXCEPT ![s] =
       IF res.error
       THEN Failed(f, "store_error")
       ELSE [f EXCEPT !.pc = "check", !.apartment = res.data.id]]
  /\ UNCHANGED <<membership, ledger, views>>

\* "Find apartment by code": select id, name from apartments where code = ... .single()
JoinLookup(s) ==
  LET f == flow[s]
      key == ToUpperCase(Trim(f.input))
      rows == { a \in apartments : ApartmentsSelectPolicy(f.user, a) /\ a.code = key }
      res == Single(rows)
      holders == { a \in apartments : a.code = key }
      hit == IF holders = {} THEN NULL ELSE (CHOOSE a \in holders : TRUE).id
      g == [f EXCEPT !.matched = hit,
                     !.wasMember = (hit # NULL /\ BagIn(MemberRow(hit, f.user), apartment_members))]
  IN
  /\ f.kind = "join" /\ f.pc = "lookup"
  /\ flow' = [flow EXCEPT ![s] =
       IF res.error
       THEN Failed(g, "not_found")
       ELSE [g EXCEPT !.pc = "check", !.apartment = res.data.id]]
  /\ UNCHANGED <<membership, ledger, views>>

\* the handler without its "already a member" throw
JoinCheck_NoThrow(s) ==
  /\ flow[s].kind = "join" /\ flow[s].pc = "check"
  /\ flow' = [flow EXCEPT ![s] = [flow[s] EXCEPT !.pc = "insert"]]
  /\ UNCHANGED <<membership, ledger, views>>

\* "Check if already a member": select id from apartment_members ... .single();
\* the error of this query is not read
JoinCheck(s) ==
  LET f == flow[s]
      row == MemberRow(f.apartment, f.user)
      rows == IF MembersSelectPolicy(f.user, row)
              THEN { <<row, i>> : i \in 1..CopiesIn(row, apartment_members) }
              ELSE {}
      existingMember == Single(rows)
  IN
  /\ f.kind = "join" /\ f.pc = "check"
  /\ flow' = [flow EXCEPT ![s] =
       IF ~existingMember.error
       THEN Failed(f, "already_member")
       ELSE [f EXCEPT !.pc = "insert"]]
  /\ UNCHANGED <<membership, ledger, views>>

\* "Add user as member": insert into apartment_members, then the success path
JoinInsert(s) ==
  LET f == flow[s]
      row == MemberRow(f.apartment, f.user)
      memberError == ~(MembersInsertPolicy(f.user, row) /\ MembersForeignKey(row)
                       /\ MembersUnique(row))
  IN
  /\ f.kind = "join" /\ f.pc = "insert"
  /\ BagCardinality(apartment_members) < MaxMemberRows
  /\ IF memberError
     THEN /\ flow' = [flow EXCEPT ![s] = Failed(f, "store_error")]
          /\ UNCHANGED apartment_members
     ELSE /\ apartment_members' = apartment_members (+) SetToBag({row})
          /\ flow' = [flow EXCEPT ![s] =
               [f EXCEPT !.pc = "done", !.outcome = "joined", !.input = <<>>,
                         !.apartment = NULL, !.notified = TRUE, !.loading = FALSE]]
  /\ UNCHANGED <<apartments, nextApartmentId, ledger, views>>

\* the dialog is closed and opened again
Close(s) ==
  /\ flow[s].pc = "done"
  /\ flow' = [flow EXCEPT ![s] = IdleFlow]
  /\ UNCHANGED <<membership, ledger, views>>

\* ------------------------------------------------------------- CreateApartmentDialog
\* the settings of plpgsql.variable_conflict, which decides what "code" names
\* in WHERE code = code
VariableConflict == {"error", "use_variable", "use_column"}

\* SELECT EXISTS(SELECT 1 FROM public.apartments WHERE code = code) INTO exists,
\* run with the caller's rights (the function is not SECURITY DEFINER): with
\* use_variable both sides are the variable, with use_column both sides are the
\* column, and either way the comparison is true of every row the caller sees
CodeExists(uid, code, mode) ==
  \E a \in apartments :
    /\ ApartmentsSelectPolicy(uid, a)
    /\ IF mode = "use_variable" THEN code = code ELSE a.code = a.code

\* handleSubmit up to its first await
CreateSubmit(s, u, raw) ==
  /\ flow[s].kind = "idle"
  /\ Trim(raw) # <<>>
  /\ flow' = [flow EXCEPT ![s] =
       [IdleFlow EXCEPT !.kind = "create", !.pc = "generate", !.user = u,
                        !.input = raw, !.loading = TRUE]]
  /\ UNCHANGED <<membership, ledger, views>>

\* rpc('generate_apartment_code'): one iteration of the function's LOOP, which
\* draws the candidate code and looks it up; the call returns when the loop exits
\* and fails when the statement raises "column reference "code" is ambiguous"
GenerateApartmentCode(s, code, mode) ==
  LET f == flow[s]
      free == \A a \in apartments : a.code # code
  IN
  /\ f.kind = "create" /\ f.pc = "generate"
  /\ flow' = [flow EXCEPT ![s] =
       IF mode = "error"
       THEN Failed(f, "codeError")
       ELSE IF ~CodeExists(f.user, code, mode)
       THEN [f EXCEPT !.pc = "insert", !.codeData = code, !.fresh = free]
       ELSE [f EXCEPT !.lastFree = free]]
  /\ UNCHANGED <<membership, ledger, views>>

\* the apartment insert leaving its row behind when it reports an error
CreateInsertApartment_KeepsRow(s) ==
  LET f == flow[s]
      row == [id |-> nextApartmentId, name |-> Trim(f.input), code |-> f.codeData,
              created_by |-> f.user]
  IN
  /\ nextApartmentId <= MaxApartments
  /\ apartments' = apartments \cup {row}
  /\ nextApartmentId' = nextApartmentId + 1
  /\ flow' = [flow EXCEPT ![s] = Failed(f, "apartmentError")]
  /\ UNCHANGED <<apartment_members, ledger, views>>

\* "Create apartment": insert into apartments ... .select().single(); the row is
\* returned, so it has to pass the SELECT policy as well as the INSERT policy
CreateInsertApartment(s) ==
  LET f == flow[s]
      row == [id |-> nextApartmentId, name |-> Trim(f.input), code |-> f.codeData,
              created_by |-> f.user]
      apartmentError == ~(/\ ApartmentsInsertPolicy(f.user, row)
                          /\ ApartmentsSelectPolicy(f.user, row)
                          /\ ApartmentsCodeUnique(row))
  IN
  /\ nextApartmentId <= MaxApartments
  /\ IF apartmentError
     THEN /\ flow' = [flow EXCEPT ![s] = Failed(f, "apartmentError")]
          /\ UNCHANGED <<apartments, nextApartmentId>>
     ELSE /\ apartments' = apartments \cup {row}
          /\ nextApartmentId' = nextApartmentId + 1
          /\ flow' = [flow EXCEPT ![s] = [f EXCEPT !.pc = "member", !.apartment = row.id]]
  /\ UNCHANGED <<apartment_members, ledger, views>>

\* "Add creator as member": insert into apartment_members, then the success path
CreateAddMember(s) ==
  LET f == flow[s]
      row == MemberRow(f.apartment, f.user)
      memberError == ~(MembersInsertPolicy(f.user, row) /\ MembersForeignKey(row)
                       /\ MembersUnique(row))
  IN
  /\ BagCardinality(apartment_members) < MaxMemberRows
  /\ IF memberError
     THEN /\ flow' = [flow EXCEPT ![s] = Failed(f, "memberError")]
          /\ UNCHANGED apartment_members
     ELSE /\ apartment_members' = apartment_members (+) SetToBag({row})
          /\ flow' = [flow EXCEPT ![s] =
               [f EXCEPT !.pc = "done", !.outcome = "created", !.input = <<>>,
                         !.notified = TRUE, !.loading = FALSE]]
  /\ UNCHANGED <<apartments, nextApartmentId, ledger, views>>

\* handleSubmit resumed after the code has arrived: the two inserts, in order
CreateResume(s) ==
  /\ flow[s].kind = "create"
  /\ flow[s].pc \in {"insert", "member"}
  /\ IF flow[s].pc = "insert" THEN CreateInsertApartment(s) ELSE CreateAddMember(s)

\* ------------------------------------------------------------- Dashboard
RECURSIVE SumAmount(_)
\* reduce((sum, exp) => sum + Number(exp.amount), 0), in minor units
SumAmount(rows) ==
  IF rows = {} THEN 0
  ELSE LET r == CHOOSE x \in rows : TRUE IN r.amount + SumAmount(rows \ {r})

RECURSIVE CountRows(_, _)
\* the number of rows of a bag among the given ones
CountRows(bag, rows) ==
  IF rows = {} THEN 0
  ELSE LET r == CHOOSE x \in rows : TRUE IN bag[r] + CountRows(bag, rows \ {r})

RECURSIVE JoinedRows(_, _)
\* apartment_members joined with apartments!inner for one user, as the rows the
\* user may see of both tables (listed by apartment id)
JoinedRows(uid, ids) ==
  IF ids = {} THEN <<>>
  ELSE LET id == CHOOSE i \in ids : \A j \in ids : i <= j
           a == CHOOSE x \in apartments : x.id = id
           row == MemberRow(id, uid)
           n == IF MembersSelectPolicy(uid, row) /\ ApartmentsSelectPolicy(uid, a)
                THEN CopiesIn(row, apartment_members) ELSE 0
       IN [i \in 1..n |-> [id |-> a.id, name |-> a.name, code |-> a.code]]
          \o JoinedRows(uid, ids \ {id})

\* fetchApartments is called (useEffect, handleApartmentCreated, handleApartmentJoined)
FetchStart(u) ==
  /\ dashboard.pc \in {"idle", "done"}
  /\ dashboard.user \in {NoUser, u}
  /\ dashboard' = [dashboard EXCEPT !.pc = "list", !.user = u,
                                    !.data = <<>>, !.apartmentData = <<>>]
  /\ UNCHANGED <<membership, flow, ledger, balance>>

\* "Get apartments the user is a member of"
FetchList ==
  LET data == JoinedRows(dashboard.user, { a.id : a \in apartments }) IN
  /\ dashboard.pc = "list"
  /\ dashboard' = [dashboard EXCEPT !.data = data,
                                    !.pc = IF data = <<>> THEN "set" ELSE "count"]
  /\ UNCHANGED <<membership, flow, ledger, balance>>

\* "Get member count" of the next item
FetchMemberCount ==
  LET apartmentId == Head(dashboard.data).id
      rows == { r \in BagToSet(apartment_members) :
                  MembersSelectPolicy(dashboard.user, r) /\ r.apartment_id = apartmentId }
  IN
  /\ dashboard.pc = "count"
  /\ dashboard' = [dashboard EXCEPT !.memberCount = CountRows(apartment_members, rows),
                                    !.pc = "expenses"]
  /\ UNCHANGED <<membership, flow, ledger, balance>>

\* "Get total expenses" of the item, and the item's entry; userBalance is the constant 0
FetchExpenses ==
  LET item == Head(dashboard.data)
      rows == { e \in expenses :
                  ExpensesSelectPolicy(dashboard.user, e) /\ e.apartment_id = item.id }
      totalExpenses == SumAmount(rows)
      userBalance == 0
      entry == [id |-> item.id, name |-> item.name, code |-> item.code,
                member_count |-> dashboard.memberCount,
                total_expenses |-> totalExpenses, user_balance |-> userBalance]
  IN
  /\ dashboard.pc = "expenses"
  /\ dashboard' = [dashboard EXCEPT !.apartmentData = Append(@, entry),
                                    !.data = Tail(@), !.memberCount = 0,
                                    !.pc = IF Tail(dashboard.data) = <<>> THEN "set" ELSE "count"]
  /\ UNCHANGED <<membership, flow, ledger, balance>>

\* setApartments(apartmentData), and the finally block
FetchFinish ==
  /\ dashboard.pc = "set"
  /\ dashboard' = [dashboard EXCEPT !.apartments = dashboard.apartmentData,
                                    !.apartmentData = <<>>, !.loading = FALSE, !.pc = "done"]
  /\ UNCHANGED <<membership, flow, ledger, balance>>

\* the first query answers with an error: "if (error) throw error", then the catch
\* and finally blocks; setApartments is not called
FetchListFails ==
  /\ dashboard.pc = "list"
  /\ dashboard' = [dashboard EXCEPT !.data = <<>>, !.apartmentData = <<>>,
                                    !.loading = FALSE, !.pc = "done"]
  /\ UNCHANGED <<membership, flow, ledger, balance>>

\* the count query answers with an error: only count is read, and memberCount || 0
FetchMemberCountFails ==
  /\ dashboard.pc = "count"
  /\ dashboard' = [dashboard EXCEPT !.memberCount = 0, !.pc = "expenses"]
  /\ UNCHANGED <<membership, flow, ledger, balance>>

\* the expenses query answers with an error: only data is read, and
\* expenses?.reduce(...) || 0
FetchExpensesFails ==
  LET item == Head(dashboard.data)
      totalExpenses == 0
      userBalance == 0
      entry == [id |-> item.id, name |-> item.name, code |-> item.code,
                member_count |-> dashboard.memberCount,
                total_expenses |-> totalExpenses, user_balance |-> userBalance]
  IN
  /\ dashboard.pc = "expenses"
  /\ dashboard' = [dashboard EXCEPT !.apartmentData = Append(@, entry),
                                    !.data = Tail(@), !.memberCount = 0,
                                    !.pc = IF Tail(dashboard.data) = <<>> THEN "set" ELSE "count"]
  /\ UNCHANGED <<membership, flow, ledger, balance>>

\* ------------------------------------------------------------- Balance Engine
\* the rows of one apartment
ExpensesOf(a) == { e \in expenses : e.apartment_id = a }
SplitsOf(a) ==
  { r \in BagToSet(expense_splits) : \E e \in ExpensesOf(a) : e.id = r.expense_id }
SettlementsOf(a) == { r \in BagToSet(settlements) : r.apartment_id = a }
MembersOf(a) == { u \in Users : BagIn(MemberRow(a, u), apartment_members) }

RECURSIVE SumBag(_, _)
\* the sum of the amounts of the given rows of a bag
SumBag(bag, rows) ==
  IF rows = {} THEN 0
  ELSE LET r == CHOOSE x \in rows : TRUE IN bag[r] * r.amount + SumBag(bag, rows \ {r})

\* credit the payer by the expense amount, debit each split participant by the
\* share; debit from_user by the settlement amount, credit to_user by it
NetBalance(a, u) ==
  SumAmount({ e \in ExpensesOf(a) : e.paid_by = u })
  - SumBag(expense_splits, { r \in SplitsOf(a) : r.user_id = u })
  - SumBag(settlements, { r \in SettlementsOf(a) : r.from_user = u })
  + SumBag(settlements, { r \in SettlementsOf(a) : r.to_user = u })

\* InvalidInput: a row names a user who is not in the member set
InvalidInput(a) ==
  \/ \E e \in ExpensesOf(a) : e.paid_by \notin MembersOf(a)
  \/ \E r \in SplitsOf(a) : r.user_id \notin MembersOf(a)
  \/ \E r \in SettlementsOf(a) : r.from_user \notin MembersOf(a) \/ r.to_user \notin MembersOf(a)

\* the engine applied to the rows of one apartment
ComputeBalances(a) ==
  /\ \E x \in apartments : x.id = a
  /\ balance' = IF InvalidInput(a) THEN NoBalance
                ELSE [u \in MembersOf(a) |-> NetBalance(a, u)]
  /\ UNCHANGED <<membership, flow, ledger, dashboard>>

StoreRequests ==
  \/ \E u \in Users, name \in DirectNames, code \in DirectCodes, creator \in Users :
       InsertApartment(u, name, code, creator)
  \/ \E u \in Users, a \in 1..MaxApartments, member \in Users : InsertMember(u, a, member)
  \/ \E u \in Users, a \in 1..MaxApartments, member \in Users : DeleteMember(u, a, member)
  \/ \E u \in Users, a \in apartments, name \in DirectNames, code \in DirectCodes,
        creator \in Users : UpdateApartment(u, a, name, code, creator)

JoinNext ==
  \/ StoreRequests
  \/ \E s \in Sessions, u \in Users, raw \in RawCodes : JoinSubmit(s, u, raw)
  \/ \E s \in Sessions : JoinLookup(s)
  \/ \E s \in Sessions : JoinCheck(s)
  \/ \E s \in Sessions : JoinInsert(s)
  \/ \E s \in Sessions : Close(s)

\* the store and the join dialogs of the sessions
SpecJoin == Init /\ [][JoinNext]_vars

CreateNext ==
  \/ StoreRequests
  \/ \E s \in Sessions, u \in Users, raw \in RawNames : CreateSubmit(s, u, raw)
  \/ \E s \in Sessions, code \in CandidateCodes, mode \in VariableConflict :
       GenerateApartmentCode(s, code, mode)
  \/ \E s \in Sessions : CreateResume(s)
  \/ \E s \in Sessions : Close(s)

\* the store and the create dialogs of the sessions
SpecCreate == Init /\ [][CreateNext]_vars

ApartmentsNext ==
  \/ StoreRequests
  \/ \E u \in Users, a \in apartments, name \in UpdateNames, code \in DirectCodes,
        creator \in Users : UpdateApartment(u, a, name, code, creator)

\* the requests the policies admit on apartments and apartment_members
SpecApartments == Init /\ [][ApartmentsNext]_vars

\* one apartment, created by a direct insert, and the ledger tables empty
LedgerInit ==
  /\ apartments = { [id |-> 1, name |-> <<"F">>, code |-> <<"A", "A", "0", "0", "A", "0">>,
                     created_by |-> "X"] }
  /\ apartment_members = EmptyBag
  /\ nextApartmentId = 2
  /\ flow = [s \in Sessions |-> IdleFlow]
  /\ EmptyLedger

LedgerRequests ==
  \/ \E u \in Users, a \in 1..MaxApartments, member \in Users : InsertMember(u, a, member)
  \/ \E u \in Users, a \in 1..MaxApartments, member \in Users : DeleteMember(u, a, member)
  \/ \E u \in Users, a \in 1..MaxApartments, amount \in Amounts, payer \in Users,
        creator \in Users : InsertExpense(u, a, amount, payer, creator)
  \/ \E u \in Users, e \in expenses, amount \in Amounts, payer \in Users, creator \in Users :
       UpdateExpense(u, e, amount, payer, creator)
  \/ \E u \in Users, e \in expenses : DeleteExpense(u, e)
  \/ \E u \in Users, e \in 1..MaxExpenses, member \in Users, amount \in ShareAmounts :
       InsertSplit(u, e, member, amount)
  \/ \E u \in Users, a \in 1..MaxApartments, from \in Users, to \in Users,
        amount \in ShareAmounts : InsertSettlement(u, a, from, to, amount)

\* the requests the policies admit on the ledger tables
SpecLedger == LedgerInit /\ [][LedgerRequests]_vars

DashboardNext ==
  \/ LedgerRequests
  \/ \E u \in Users : FetchStart(u)
  \/ FetchList
  \/ FetchMemberCount
  \/ FetchExpenses
  \/ FetchFinish

\* the ledger and the Dashboard's fetchApartments
SpecDashboard == LedgerInit /\ [][DashboardNext]_vars

\* two apartments, created by direct inserts, and the ledger tables empty
FetchInit ==
  /\ apartments = { [id |-> 1, name |-> <<"F">>, code |-> <<"A", "A", "0", "0", "A", "0">>,
                     created_by |-> "X"],
                    [id |-> 2, name |-> <<"G">>, code |-> <<"B", "A", "0", "0", "A", "0">>,
                     created_by |-> "Y"] }
  /\ apartment_members = EmptyBag
  /\ nextApartmentId = 3
  /\ flow = [s \in Sessions |-> IdleFlow]
  /\ EmptyLedger

\* the writes to the tables fetchApartments reads
FetchWrites ==
  \/ \E u \in Users, a \in 1..MaxApartments, member \in Users : InsertMember(u, a, member)
  \/ \E u \in Users, a \in 1..MaxApartments, member \in Users : DeleteMember(u, a, member)
  \/ \E u \in Users, a \in 1..MaxApartments, amount \in Amounts, payer \in Users,
        creator \in Users : InsertExpense(u, a, amount, payer, creator)
  \/ \E u \in Users, e \in expenses : DeleteExpense(u, e)

FetchNext ==
  \/ dashboard.pc \in {"idle", "done"} /\ FetchWrites
  \/ \E u \in Users : FetchStart(u)
  \/ FetchList
  \/ FetchListFails
  \/ FetchMemberCount
  \/ FetchMemberCountFails
  \/ FetchExpenses
  \/ FetchExpensesFails
  \/ FetchFinish

\* fetchApartments with no write between its start and its end
SpecFetch == FetchInit /\ [][FetchNext]_vars

EngineNext ==
  \/ LedgerRequests
  \/ \E a \in 1..MaxApartments : ComputeBalances(a)

\* the ledger and the balance engine
SpecEngine == LedgerInit /\ [][EngineNext]_vars

\* ------------------------------------------------------------- properties
\* the apartment rows that hold the code a join dialog looks up
CodeHolders(f) == { a \in apartments : a.code = ToUpperCase(Trim(f.input)) }

IsMember(a, u) == BagIn(MemberRow(a, u), apartment_members)

\* C1: a join flow whose code was, at the lookup, the code of an apartment the
\* user was not a member of ends with the success outcome and with the
\* membership row (apartment, user) in the store
C1_JoinByCodeSucceeds ==
  [][\A s \in Sessions :
       (/\ flow[s].pc # "done" /\ flow'[s].pc = "done" /\ flow'[s].kind = "join"
        /\ flow'[s].matched # NULL /\ ~flow'[s].wasMember)
       => (/\ flow'[s].outcome = "joined"
           /\ BagIn(MemberRow(flow'[s].matched, flow'[s].user), apartment_members'))]_vars

\* C2: an iteration of generate_apartment_code raises no error, exits the loop
\* when the candidate it drew is the code of no apartment row, and the code
\* the function returns is the code of no apartment row
C2_GenerateReturnsUnusedCode ==
  [][\A s \in Sessions :
       (flow[s].pc = "generate" /\ flow'[s] # flow[s])
       => (/\ flow'[s].pc \in {"generate", "insert"}
           /\ flow'[s].pc = "generate" => ~flow'[s].lastFree
           /\ flow'[s].pc = "insert" => flow'[s].fresh)]_vars

\* C3: the create flow's insert of the apartment row, made with a code no row
\* holds by a caller who is not yet a member, adds exactly one apartment row
\* with the trimmed name, the generated code and created_by the caller,
\* and the flow goes on to add the creator's membership
C3_CreateInsertsApartment ==
  [][\A s \in Sessions :
       (/\ flow[s].kind = "create" /\ flow[s].pc = "insert" /\ flow'[s] # flow[s]
        /\ \A a \in apartments : a.code # flow[s].codeData)
       => (/\ flow'[s].pc = "member"
           /\ \E row \in apartments' \ apartments :
                /\ apartments' = apartments \cup {row}
                /\ row.name = Trim(flow[s].input)
                /\ row.code = flow[s].codeData
                /\ row.created_by = flow[s].user)]_vars

\* C4: a join lookup whose code is the code of no apartment row ends the flow with
\* the "Apartment not found" outcome, without the success callback, and leaves
\* the apartments and memberships tables as they were
C4_UnknownCodeNotFound ==
  [][\A s \in Sessions :
       (/\ flow[s].kind = "join" /\ flow[s].pc = "lookup" /\ flow'[s] # flow[s]
        /\ CodeHolders(flow[s]) = {})
       => (/\ flow'[s].pc = "done"
           /\ flow'[s].outcome = "not_found"
           /\ ~flow'[s].notified
           /\ apartments' = apartments
           /\ apartment_members' = apartment_members)]_vars

C4_Witness ==
  \E s \in Sessions :
    /\ flow[s].kind = "join" /\ flow[s].pc = "done"
    /\ flow[s].matched = NULL /\ flow[s].outcome = "not_found"

C6_MembershipUnique ==
  [][/\ \A row \in BagToSet(apartment_members') : CopiesIn(row, apartment_members') = 1
     /\ \A s \in Sessions :
          (/\ flow[s].kind = "join" /\ flow[s].pc = "insert" /\ flow'[s] # flow[s]
           /\ IsMember(flow[s].apartment, flow[s].user))
          => (/\ flow'[s].pc = "done"
              /\ flow'[s].outcome = "store_error"
              /\ ~flow'[s].notified
              /\ apartment_members' = apartment_members)]_vars

\* two sessions of one user raced for one apartment: one joined, the other failed
C6_Witness ==
  \E s1, s2 \in Sessions :
    /\ s1 # s2
    /\ flow[s1].kind = "join" /\ flow[s2].kind = "join"
    /\ flow[s1].user = flow[s2].user
    /\ flow[s1].matched # NULL /\ flow[s1].matched = flow[s2].matched
    /\ flow[s1].outcome = "joined" /\ flow[s2].outcome = "store_error"
    /\ IsMember(flow[s1].matched, flow[s1].user)

\* C7: no two apartment rows share a join code
C7_CodesUnique ==
  \A a, b \in apartments : a.id # b.id => a.code # b.code

\* two create flows hold the same generated code, which a row already has,
\* before either has inserted; and two apartment rows exist
C7_Witness ==
  /\ Cardinality(apartments) = MaxApartments
  /\ \E s1, s2 \in Sessions :
       /\ s1 # s2
       /\ flow[s1].pc = "insert" /\ flow[s2].pc = "insert"
       /\ flow[s1].codeData = flow[s2].codeData
       /\ \E a \in apartments : a.code = flow[s1].codeData

\* the sum of the expenses of the apartment the user paid, minus the user's shares
PaidMinusShares(a, u) ==
  SumAmount({ e \in ExpensesOf(a) : e.paid_by = u })
  - SumBag(expense_splits, { r \in SplitsOf(a) : r.user_id = u })

\* C8: with no settlements, the balance the dashboard reports for the user in each
\* listed apartment is what the user paid there minus the user's split shares
C8_BalanceIsPaidMinusShares ==
  [][(dashboard.pc = "set" /\ dashboard'.pc = "done" /\ settlements = EmptyBag)
     => \A i \in 1..Len(dashboard'.apartments) :
          dashboard'.apartments[i].user_balance
            = PaidMinusShares(dashboard'.apartments[i].id, dashboard'.user)]_vars

\* Scenario A plus a settlement of 50.00 from Y to X
ScenarioB ==
  /\ MembersOf(1) = {"X", "Y"}
  /\ \E c \in Users :
       expenses = { [id |-> 1, apartment_id |-> 1, amount |-> 10000, paid_by |-> "X",
                     created_by |-> c] }
  /\ expense_splits = SetToBag({ [expense_id |-> 1, user_id |-> "X", amount |-> 5000],
                                 [expense_id |-> 1, user_id |-> "Y", amount |-> 5000] })
  /\ settlements = SetToBag({ [apartment_id |-> 1, from_user |-> "Y", to_user |-> "X",
                               amount |-> 5000] })

\* C9: the balances the engine returns for Scenario B are 0.00 for X and 0.00 for Y
C9_ScenarioBSettlesToZero ==
  [][(ScenarioB /\ balance' # balance)
     => (balance'["X"] = 0 /\ balance'["Y"] = 0)]_vars

\* C10: an expense row appears only by a request of a user who is then a member of
\* its apartment and is its created_by, and an expense row is changed or removed
\* only by a request of the user in its created_by column
C10_ExpenseWritesByPolicy ==
  [][/\ \A e \in expenses' :
          (\A o \in expenses : o.id # e.id)
          => (e.created_by = requester' /\ IsMember(e.apartment_id, requester'))
     /\ \A o \in expenses : o \notin expenses' => requester' = o.created_by]_vars

\* an expense was inserted and its creator, no longer a member, removed it
C10_Witness ==
  /\ nextExpenseId > 1
  /\ expenses = {}
  /\ requester # NoUser
  /\ MemberApartments(requester) = {}

\* C11: an apartment row keeps its id, its join code and its creator in every step
C11_ApartmentIdentityImmutable ==
  [][\A a \in apartments :
       \E b \in apartments' :
         b.id = a.id /\ b.code = a.code /\ b.created_by = a.created_by]_vars

CreateErrors == {"codeError", "apartmentError", "memberError"}

MemberRowsOf(a) ==
  CountRows(apartment_members, { r \in BagToSet(apartment_members) : r.apartment_id = a })

\* C13: a fetch during which nothing is written sets the list to one entry for
\* each apartment the user has a membership row in, each with the number of the
\* apartment's membership rows and the sum of its expenses' amounts, and a
\* fetch that ends, either way, ends with loading false
C13_FetchListsMemberships ==
  [][/\ (dashboard.pc # "done" /\ dashboard'.pc = "done") => ~dashboard'.loading
     /\ (dashboard.pc = "set" /\ dashboard'.pc = "done")
        => LET list == dashboard'.apartments IN
           /\ { list[i].id : i \in 1..Len(list) } = MemberApartments(dashboard.user)
           /\ \A i, j \in 1..Len(list) : list[i].id = list[j].id => i = j
           /\ \A i \in 1..Len(list) :
                /\ list[i].member_count = MemberRowsOf(list[i].id)
                /\ list[i].total_expenses = SumAmount(ExpensesOf(list[i].id))]_vars

\* C14: every user a ledger row names is a member of the row's apartment: the
\* payer of each expense, the user of each split (in the apartment of the
\* split's expense) and both users of each settlement have a membership row
C14_LedgerUsersAreMembers ==
  /\ \A e \in expenses : IsMember(e.apartment_id, e.paid_by)
  /\ \A r \in BagToSet(expense_splits) :
       \A e \in expenses : e.id = r.expense_id => IsMember(e.apartment_id, r.user_id)
  /\ \A r \in BagToSet(settlements) :
       IsMember(r.apartment_id, r.from_user) /\ IsMember(r.apartment_id, r.to_user)
====
